---- MODULE Spec2Model ----
(***************************************************************************)
(* Model of paddlespeech/t2s/modules/losses.py: the guided attention       *)
(* losses (GuidedAttentionLoss, GuidedMultiHeadAttentionLoss,              *)
(* attention_guide, guided_attention_loss), Tacotron2Loss and              *)
(* FeatureMatchLoss.                                                       *)
(*                                                                         *)
(* Numbers.  The tensors of the source hold float32 values.  A float32     *)
(* between 1/2 and 1 is a multiple of 2^-24, so a value v is modelled by   *)
(* the integer v * 2^24 (binary fixed point, FracBits fractional bits),    *)
(* and every arithmetic operation rounds its exact result to the nearest   *)
(* multiple, as IEEE arithmetic rounds to the nearest representable        *)
(* value.  In particular 1 - exp(-x) is exactly 0 for x below 2^-25 and    *)
(* exactly 1 once exp(-x) is below 2^-25, as in float32.                   *)
(*                                                                         *)
(* Tensors.  A tensor is a record [shape, data]: shape is the tuple of its *)
(* dimensions, data maps every index tuple (0-based) to its value.         *)
(***************************************************************************)
EXTENDS Integers, Sequences, FiniteSets, TLC

VARIABLES
    self,   \* the loss module the calls are made on: a record of its fields
            \* (cls names its class), or NoModule for a call of a plain function
    call    \* the current call: [fn, args, outcome (none, pending, returned,
            \* raised), ret]

vars == <<self, call>>

\* Python's None, as a record so that it compares with a tensor
None == [none |-> TRUE]

NoModule == [cls |-> "none"]

-----------------------------------------------------------------------------
(* Bounds of the model *)

\* longest sequence of a batch handed to a mask builder
MaxLen == 4

\* longest sequence of a batch handed to a loss
MaxSeq == 2

\* number of attention heads
NumHeads == 2

-----------------------------------------------------------------------------
(* float32 arithmetic as binary fixed point *)

FracBits == 24

One == 2 ^ FracBits

\* 2^12: One = Half * Half, used to keep exact products within TLC's integers
Half == 2 ^ (FracBits \div 2)

Abs(a) == IF a < 0 THEN -a ELSE a

\* a / b rounded to the nearest integer (a >= 0, b > 0)
RoundDiv(a, b) == (a + b \div 2) \div b

\* the float n / d of two non-negative integers (d > 0), correctly rounded
IntDiv(n, d) ==
    LET whole == n \div d
        r     == n % d
        hi    == (r * Half) \div d
        r1    == (r * Half) % d
    IN  whole * One + hi * Half + RoundDiv(r1 * Half, d)

\* the float product a * b of two non-negative values, correctly rounded
FMul(a, b) ==
    LET ah  == a \div Half
        al  == a % Half
        bh  == b \div Half
        bl  == b % Half
        mid == ah * bl + al * bh
        low == (mid % Half) * Half + al * bl
    IN  ah * bh + mid \div Half + RoundDiv(low, One)

\* the float a * n / d for a value a >= 0 and integers n, d > 0; a result of
\* 64 or more is given as 64, whose exp(-x) is below 2^-25 all the same
FScale(a, n, d) ==
    IF a \div d >= (64 * One) \div n THEN 64 * One
    ELSE (a \div d) * n + RoundDiv((a % d) * n, d)

\* ln 2
Ln2 == 11629080

\* sum of the alternating series 1 - r + r^2/2! - ... from its n-th term on,
\* term being r^(n-1)/(n-1)!
RECURSIVE ExpSeries(_, _, _)
ExpSeries(r, term, n) ==
    LET next == RoundDiv(FMul(term, r), n)
    IN  IF next = 0 THEN 0
        ELSE next - ExpSeries(r, next, n + 1)

\* paddle.exp(-x) for x >= 0: exp(-x) = 2^-k * exp(-r), x = k ln 2 + r
ExpNeg(x) ==
    LET k  == x \div Ln2
        r  == x % Ln2
        er == One - ExpSeries(r, One, 1)
    IN  IF k > FracBits + 1 THEN 0 ELSE RoundDiv(er, 2 ^ k)

-----------------------------------------------------------------------------
(* Tensors *)

Max(S) == CHOOSE m \in S : \A x \in S : x <= m

MaxOf(lens) == Max({lens[b] : b \in DOMAIN lens})

\* the index tuples of a tensor of the given shape
Indices(shape) ==
    {idx \in [DOMAIN shape -> 0..(Max({shape[k] : k \in DOMAIN shape}) - 1)] :
        \A k \in DOMAIN shape : idx[k] < shape[k]}

Tensor(shape, data) == [shape |-> shape, data |-> data]

\* the element at idx of a tensor broadcast to a larger shape
At(t, idx) == t.data[[k \in DOMAIN idx |-> IF t.shape[k] = 1 THEN 0 ELSE idx[k]]]

\* x.unsqueeze(axis): a dimension of size 1 inserted before position axis (0-based)
Unsqueeze(t, axis) ==
    LET n == Len(t.shape)
        shape == [k \in 1..(n + 1) |->
                    IF k <= axis THEN t.shape[k]
                    ELSE IF k = axis + 1 THEN 1 ELSE t.shape[k - 1]]
        Drop(idx) == [k \in 1..n |-> IF k <= axis THEN idx[k] ELSE idx[k + 1]]
    IN  Tensor(shape, [idx \in Indices(shape) |-> t.data[Drop(idx)]])

\* whether two shapes of the same rank broadcast against each other
Broadcastable(s, t) ==
    /\ Len(s) = Len(t)
    /\ \A k \in DOMAIN s : s[k] = t[k] \/ s[k] = 1 \/ t[k] = 1

BroadcastShape(s, t) == [k \in DOMAIN s |-> IF s[k] = 1 THEN t[k] ELSE s[k]]

\* the number of elements of a shape
RECURSIVE Numel(_)
Numel(shape) == IF shape = <<>> THEN 1 ELSE Head(shape) * Numel(Tail(shape))

\* the index tuple of the n-th element (0-based) in row-major order
RECURSIVE Unravel(_, _)
Unravel(n, shape) ==
    IF shape = <<>> THEN <<>>
    ELSE LET rest == Numel(Tail(shape))
         IN  <<n \div rest>> \o Unravel(n % rest, Tail(shape))

\* x.masked_select(mask): the elements of x where mask (broadcast to x's shape)
\* is true, in row-major order
masked_select(x, mask) ==
    LET pairs == [n \in 1..Numel(x.shape) |->
                    LET idx == Unravel(n - 1, x.shape)
                    IN  <<x.data[idx], At(mask, idx)>>]
        kept  == SelectSeq(pairs, LAMBDA p : p[2])
    IN  [j \in 1..Len(kept) |-> kept[j][1]]

RECURSIVE SumSeq(_)
SumSeq(s) == IF s = <<>> THEN 0 ELSE Head(s) + SumSeq(Tail(s))

\* paddle.mean of a non-empty 1-D tensor of non-negative values: the sum
\* divided by the number of values, summed as quotients and remainders to stay
\* within TLC's integers
Mean(s) ==
    LET n == Len(s)
    IN  SumSeq([j \in 1..n |-> s[j] \div n]) + RoundDiv(SumSeq([j \in 1..n |-> s[j] % n]), n)

-----------------------------------------------------------------------------
(* GuidedAttentionLoss: the mask builders *)

\* the entry with the two lengths taken for each other
GuidedEntrySwapped(o, i, ilen, olen, sig) ==
    LET d  == IntDiv(i, olen) - IntDiv(o, ilen)
        d2 == FMul(Abs(d), Abs(d))
        x  == FScale(d2, sig[2] * sig[2], 2 * sig[1] * sig[1])
    IN  One - ExpNeg(x)

\* one entry of _make_guided_attention_mask:
\* 1.0 - exp(-((grid_y / ilen - grid_x / olen) ** 2) / (2 * (sigma ** 2)))
GuidedEntry(o, i, ilen, olen, sig) ==
    LET d  == IntDiv(i, ilen) - IntDiv(o, olen)
        d2 == FMul(Abs(d), Abs(d))
        x  == FScale(d2, sig[2] * sig[2], 2 * sig[1] * sig[1])
    IN  One - ExpNeg(x)

_make_guided_attention_mask(ilen, olen, sig) ==
    Tensor(<<olen, ilen>>,
        [idx \in Indices(<<olen, ilen>>) |->
            GuidedEntry(idx[1], idx[2], ilen, olen, sig)])

\* make_non_pad_mask(lens): (B, max(lens)), true at [b, t] iff t < lens[b]
make_non_pad_mask(lens) ==
    Tensor(<<Len(lens), MaxOf(lens)>>,
        [idx \in Indices(<<Len(lens), MaxOf(lens)>>) |->
            idx[2] < lens[idx[1] + 1]])

logical_and(x, y) ==
    Tensor(BroadcastShape(x.shape, y.shape),
        [idx \in Indices(BroadcastShape(x.shape, y.shape)) |->
            At(x, idx) /\ At(y, idx)])

\* _make_masks with both masks made from olens
_make_masks_same_lens(ilens, olens) ==
    LET in_masks  == make_non_pad_mask(olens)
        out_masks == make_non_pad_mask(olens)
    IN  logical_and(Unsqueeze(out_masks, 2), Unsqueeze(in_masks, 1))

_make_masks(ilens, olens) ==
    LET in_masks  == make_non_pad_mask(ilens)
        out_masks == make_non_pad_mask(olens)
    IN  logical_and(Unsqueeze(out_masks, 2), Unsqueeze(in_masks, 1))

_make_guided_attention_masks(ilens, olens, sig) ==
    LET n_batches == Len(ilens)
        max_ilen  == MaxOf(ilens)
        max_olen  == MaxOf(olens)
        Entry(idx) ==
            LET b == idx[1] + 1
            IN  IF b <= Len(olens) /\ idx[2] < olens[b] /\ idx[3] < ilens[b]
                THEN GuidedEntry(idx[2], idx[3], ilens[b], olens[b], sig)
                ELSE 0
    IN  Tensor(<<n_batches, max_olen, max_ilen>>,
            [idx \in Indices(<<n_batches, max_olen, max_ilen>>) |->
                Entry(idx)])

-----------------------------------------------------------------------------
(* The mask builders called on their own *)

Sigmas == {<<2, 5>>, <<1, 10>>}

Lens == 1..MaxLen

\* batches of two sequences
LenBatches == Lens \X Lens

\* a call that has been made and has not returned yet
Pending(fn, args) == [fn |-> fn, args |-> args, outcome |-> "pending", ret |-> None]

Returns(c, v) == [c EXCEPT !.outcome = "returned", !.ret = v]

IsPending(fn) == call.fn = fn /\ call.outcome = "pending"

HasReturned(fn) == call.fn = fn /\ call.outcome = "returned"

\* a long utterance: 128 input tokens, 129 output frames
LongLens == <<128, 129>>

GuidedLens == (Lens \X Lens) \cup {LongLens}

MaskCalls ==
    {Pending("_make_masks", [ilens |-> ilens, olens |-> olens]) :
        ilens \in LenBatches, olens \in LenBatches}
    \cup
    {Pending("_make_guided_attention_mask", [ilen |-> lens[1], olen |-> lens[2], sigma |-> sig]) :
        lens \in GuidedLens, sig \in Sigmas}

InitMask ==
    /\ self = NoModule
    /\ call \in MaskCalls

CallMakeMasks ==
    /\ IsPending("_make_masks")
    /\ call' = Returns(call, _make_masks(call.args.ilens, call.args.olens))
    /\ UNCHANGED self

CallMakeGuidedAttentionMask ==
    /\ IsPending("_make_guided_attention_mask")
    /\ call' = Returns(call, _make_guided_attention_mask(call.args.ilen, call.args.olen,
                                                         call.args.sigma))
    /\ UNCHANGED self

NextMask == CallMakeMasks \/ CallMakeGuidedAttentionMask

SpecMask == InitMask /\ [][NextMask]_vars

-----------------------------------------------------------------------------
(* GuidedAttentionLoss and GuidedMultiHeadAttentionLoss: forward *)

\* x * y, elementwise, of two tensors of non-negative values that broadcast
Multiply(x, y) ==
    Tensor(BroadcastShape(x.shape, y.shape),
        [idx \in Indices(BroadcastShape(x.shape, y.shape)) |->
            FMul(At(x, idx), At(y, idx))])

\* whether mask.broadcast_to(shape) succeeds
CanBroadcastTo(from, to) ==
    /\ Len(from) = Len(to)
    /\ \A k \in DOMAIN from : from[k] = to[k] \/ from[k] = 1

\* lines 88-93 of forward with the masks reset whatever reset_always is
ApplyMasksAlwaysReset(me, g, m, att_ws) ==
    IF ~Broadcastable(g.shape, att_ws.shape)
       \/ ~CanBroadcastTo(m.shape, BroadcastShape(g.shape, att_ws.shape))
    THEN [outcome |-> "raised", ret |-> None, guided_attn_masks |-> g, masks |-> m]
    ELSE LET losses == Multiply(g, att_ws)
             loss   == Mean(masked_select(losses, m))
         IN  [outcome |-> "returned",
              ret |-> FMul(me.alpha, loss),
              guided_attn_masks |-> None,
              masks |-> None]

\* lines 88-93 of forward, the masks g and m in hand: the outcome of the call,
\* the value it returns, and the masks it leaves in self; an exception of
\* line 88 or 89 leaves the masks of lines 83-87 in self
ApplyMasks(me, g, m, att_ws) ==
    IF ~Broadcastable(g.shape, att_ws.shape)
       \/ ~CanBroadcastTo(m.shape, BroadcastShape(g.shape, att_ws.shape))
    THEN [outcome |-> "raised", ret |-> None, guided_attn_masks |-> g, masks |-> m]
    ELSE LET losses == Multiply(g, att_ws)
             loss   == Mean(masked_select(losses, m))
         IN  [outcome |-> "returned",
              ret |-> FMul(me.alpha, loss),
              guided_attn_masks |-> IF me.reset_always THEN None ELSE g,
              masks |-> IF me.reset_always THEN None ELSE m]

\* GuidedAttentionLoss.forward on the module me
GuidedAttentionLoss_forward(me, att_ws, ilens, olens) ==
    LET g == IF me.guided_attn_masks = None
             THEN _make_guided_attention_masks(ilens, olens, me.sigma)
             ELSE me.guided_attn_masks
        m == IF me.masks = None THEN _make_masks(ilens, olens) ELSE me.masks
    IN  ApplyMasks(me, g, m, att_ws)

\* GuidedMultiHeadAttentionLoss.forward on the module me
GuidedMultiHeadAttentionLoss_forward(me, att_ws, ilens, olens) ==
    LET g == IF me.guided_attn_masks = None
             THEN Unsqueeze(_make_guided_attention_masks(ilens, olens, me.sigma), 1)
             ELSE me.guided_attn_masks
        m == IF me.masks = None THEN Unsqueeze(_make_masks(ilens, olens), 1) ELSE me.masks
    IN  ApplyMasks(me, g, m, att_ws)

\* GuidedAttentionLoss.__init__
GuidedAttentionLoss_init(class, sig, al, reset) ==
    [cls |-> class, sigma |-> sig, alpha |-> al, reset_always |-> reset,
     guided_attn_masks |-> None, masks |-> None]

\* the batches handed to forward: two sequences, the longest first, and a
\* batch of two sequences of length 1
SortedBatches == {<<MaxSeq, l>> : l \in 1..MaxSeq} \cup {<<1, 1>>}

\* attention weights of the given shape: a fixed pattern of eighths, no two
\* neighbours alike
AttentionWeights(shape) ==
    Tensor(shape, [idx \in Indices(shape) |->
        LET n == Len(idx)
        IN  (1 + ((idx[1] + 2 * idx[n - 1] + 3 * idx[n]) % 4)) * (One \div 8)])

\* the shapes the caller hands in for att_ws: the one that fits ilens and olens
\* and, where a frame more cannot be broadcast away, one with a frame too many
AttShapes(ilens, olens) ==
    IF MaxOf(olens) = 1
    THEN {<<Len(ilens), 1, MaxOf(ilens)>>}
    ELSE {<<Len(ilens), MaxOf(olens), MaxOf(ilens)>>,
          <<Len(ilens), MaxOf(olens) + 1, MaxOf(ilens)>>}

InitGA ==
    /\ self \in {GuidedAttentionLoss_init(class, <<2, 5>>, One, reset) :
                    class \in {"GuidedAttentionLoss", "GuidedMultiHeadAttentionLoss"},
                    reset \in BOOLEAN}
    /\ call = [fn |-> "none", args |-> None, outcome |-> "none", ret |-> None]

Forward(att_ws, ilens, olens) ==
    /\ self.cls = "GuidedAttentionLoss"
    /\ \E r \in {GuidedAttentionLoss_forward(self, att_ws, ilens, olens)} :
           /\ self' = [self EXCEPT !.guided_attn_masks = r.guided_attn_masks,
                                   !.masks = r.masks]
           /\ call' = [fn |-> "forward",
                       args |-> [att_ws |-> att_ws, ilens |-> ilens, olens |-> olens],
                       outcome |-> r.outcome, ret |-> r.ret]

MultiHeadForward(att_ws, ilens, olens) ==
    /\ self.cls = "GuidedMultiHeadAttentionLoss"
    /\ \E r \in {GuidedMultiHeadAttentionLoss_forward(self, att_ws, ilens, olens)} :
           /\ self' = [self EXCEPT !.guided_attn_masks = r.guided_attn_masks,
                                   !.masks = r.masks]
           /\ call' = [fn |-> "forward",
                       args |-> [att_ws |-> att_ws, ilens |-> ilens, olens |-> olens],
                       outcome |-> r.outcome, ret |-> r.ret]

NextGA ==
    \E ilens \in SortedBatches, olens \in SortedBatches :
        \E shape \in AttShapes(ilens, olens) :
            \/ Forward(AttentionWeights(shape), ilens, olens)
            \/ MultiHeadForward(AttentionWeights(<<shape[1], NumHeads, shape[2], shape[3]>>),
                                ilens, olens)

SpecGA == InitGA /\ [][NextGA]_vars

-----------------------------------------------------------------------------
(* The claims about GuidedAttentionLoss and GuidedMultiHeadAttentionLoss *)

\* the sum of the values of the function f over the set S of its arguments
RECURSIVE SumOver(_, _)
SumOver(S, f) ==
    IF S = {} THEN 0
    ELSE LET x == CHOOSE y \in S : TRUE
         IN  f[x] + SumOver(S \ {x}, f)

\* the positions of att_ws that lie within the lengths of their own sequence
NonPadded(att_ws, ilens, olens) ==
    {idx \in Indices(att_ws.shape) :
        LET n == Len(idx)
        IN  idx[n - 1] < olens[idx[1] + 1] /\ idx[n] < ilens[idx[1] + 1]}

\* the guided attention loss of one call, from its arguments and the
\* constructor parameters alone: alpha times the mean, over the non-padded
\* positions, of the guided mask entry times the attention weight
GuidedLossOf(me, args) ==
    LET S == NonPadded(args.att_ws, args.ilens, args.olens)
        Term == [idx \in S |->
            LET n == Len(idx)
                b == idx[1] + 1
            IN  FMul(GuidedEntry(idx[n - 1], idx[n], args.ilens[b], args.olens[b], me.sigma),
                     args.att_ws.data[idx])]
    IN  FMul(me.alpha, RoundDiv(SumOver(S, Term), Cardinality(S)))

ForwardReturned == call.fn = "forward" /\ call.outcome = "returned"

NoCachedMasks == self.guided_attn_masks = None /\ self.masks = None

\* C1 as stated: the value a forward call returns is determined by that call's
\* arguments and the constructor parameters alone, for either value of
\* reset_always.
C1_AsStated == ForwardReturned => call.ret = GuidedLossOf(self, call.args)

\* C1 amended: a forward call that finds no cached masks returns a value
\* determined by its own arguments and the constructor parameters; with
\* reset_always = False the masks, once built, stay cached through every later
\* call.
C1_NoCachedMasksNoState ==
    [][/\ (NoCachedMasks /\ ForwardReturned') => call'.ret = GuidedLossOf(self', call'.args)
       /\ (~self.reset_always /\ ~NoCachedMasks)
            => (self'.guided_attn_masks = self.guided_attn_masks /\ self'.masks = self.masks)]_vars

\* with reset_always = False, a later call on a batch of other lengths has
\* returned a value that is not the loss of its own arguments
C1_Witness ==
    /\ ForwardReturned
    /\ ~self.reset_always
    /\ call.args.olens = <<MaxSeq, MaxSeq>>
    /\ self.masks # None
    /\ self.masks # (IF self.cls = "GuidedAttentionLoss"
                     THEN _make_masks(call.args.ilens, call.args.olens)
                     ELSE Unsqueeze(_make_masks(call.args.ilens, call.args.olens), 1))
    /\ call.ret # GuidedLossOf(self, call.args)

\* C2 as stated: with reset_always = True both masks are None after every
\* forward call that returns, so that every forward call finds them None and
\* builds both from its own ilens and olens.
C2_AsStated == self.reset_always => NoCachedMasks

\* the part of C2 that holds: with reset_always = True both masks are None
\* after every forward call that returns
C2_NoneAfterReturn == (self.reset_always /\ ForwardReturned) => NoCachedMasks

\* with reset_always = True a forward call has raised and left its masks in
\* self, and the next call has returned some other value than the loss of
\* its own arguments
C2_StaleMasksUsed ==
    /\ self.reset_always
    /\ ForwardReturned
    /\ call.ret # GuidedLossOf(self, call.args)

-----------------------------------------------------------------------------
(* The claims about the mask builders *)

\* C3: _make_masks(ilens, olens) returns a boolean tensor of shape
\* (B, max(olens), max(ilens)) whose entry [b, o, i] is true exactly when
\* o < olens[b] and i < ilens[b].
C3_MakeMasks ==
    HasReturned("_make_masks") =>
        LET ilens == call.args.ilens
            olens == call.args.olens
            shape == <<Len(ilens), MaxOf(olens), MaxOf(ilens)>>
        IN  /\ call.ret.shape = shape
            /\ DOMAIN call.ret.data = Indices(shape)
            /\ \A b \in 0..(shape[1] - 1), o \in 0..(shape[2] - 1), i \in 0..(shape[3] - 1) :
                 /\ call.ret.data[<<b, o, i>>] \in BOOLEAN
                 /\ call.ret.data[<<b, o, i>>] = (o < olens[b + 1] /\ i < ilens[b + 1])

\* a batch whose two sequences differ in both lengths, so that the mask has
\* padded rows and padded columns
C3_Witness ==
    /\ HasReturned("_make_masks")
    /\ call.args.ilens = <<2, 1>>
    /\ call.args.olens = <<1, 3>>
    /\ call.ret.data[<<0, 0, 1>>] = TRUE
    /\ call.ret.data[<<0, 1, 0>>] = FALSE
    /\ call.ret.data[<<1, 2, 0>>] = TRUE
    /\ call.ret.data[<<1, 2, 1>>] = FALSE

\* the entries of the matrix returned by the last _make_guided_attention_mask call
MaskEntries == (0..(call.args.olen - 1)) \X (0..(call.args.ilen - 1))

OnDiagonal(p) == p[2] * call.args.olen = p[1] * call.args.ilen

MaskShapeOk ==
    /\ call.ret.shape = <<call.args.olen, call.args.ilen>>
    /\ DOMAIN call.ret.data = Indices(<<call.args.olen, call.args.ilen>>)

MaskSymmetric ==
    call.args.ilen = call.args.olen =>
        \A p \in MaskEntries :
            /\ call.ret.data[<<p[1], p[2]>>] = call.ret.data[<<p[2], p[1]>>]
            /\ call.ret.data[<<p[1], p[1]>>] = 0

\* C4 as stated: the matrix has shape [olen, ilen], its entry [o, i] is 0 exactly
\* where i*olen = o*ilen and strictly between 0 and 1 elsewhere, and for
\* ilen = olen it is symmetric with a zero diagonal.
C4_AsStated ==
    HasReturned("_make_guided_attention_mask") =>
        /\ MaskShapeOk
        /\ \A p \in MaskEntries :
             /\ (call.ret.data[p] = 0) <=> OnDiagonal(p)
             /\ ~OnDiagonal(p) => (0 < call.ret.data[p] /\ call.ret.data[p] < One)
        /\ MaskSymmetric

\* C4 amended: the matrix has shape [olen, ilen], its entry [o, i] is 0
\* wherever i*olen = o*ilen and lies between 0 and 1, both included, elsewhere,
\* and for ilen = olen it is symmetric with a zero diagonal.
C4_GuidedAttentionMask ==
    HasReturned("_make_guided_attention_mask") =>
        /\ MaskShapeOk
        /\ \A p \in MaskEntries :
             /\ OnDiagonal(p) => call.ret.data[p] = 0
             /\ 0 <= call.ret.data[p] /\ call.ret.data[p] <= One
        /\ MaskSymmetric

\* a rectangular mask with zeros on its diagonal only and every other entry
\* strictly between 0 and 1
C4_Witness ==
    /\ HasReturned("_make_guided_attention_mask")
    /\ call.args.ilen = 2
    /\ call.args.olen = 3
    /\ call.ret.data[<<0, 0>>] = 0
    /\ \A p \in MaskEntries \ {<<0, 0>>} : 0 < call.ret.data[p] /\ call.ret.data[p] < One

-----------------------------------------------------------------------------
(* attention_guide and guided_attention_loss *)

\* paddle.arange(0, n).astype(dtype) / lens.unsqueeze(-1): shape (B, n)
Positions(lens, n) ==
    Tensor(<<Len(lens), n>>,
        [idx \in Indices(<<Len(lens), n>>) |->
            IntDiv(idx[2], lens[idx[1] + 1])])

\* sequence_mask(lens, maxlen): shape (B, maxlen), 1 at [b, j] iff j < lens[b]
sequence_mask(lens, maxlen) ==
    Tensor(<<Len(lens), maxlen>>,
        [idx \in Indices(<<Len(lens), maxlen>>) |->
            IF idx[2] < lens[idx[1] + 1] THEN 1 ELSE 0])

\* 1 - paddle.exp(-(dec_pos.unsqueeze(-1) - enc_pos.unsqueeze(1))**2 / (2 * g**2))
GuideMatrix(dec_pos, enc_pos, g) ==
    LET dp == Unsqueeze(dec_pos, 2)
        ep == Unsqueeze(enc_pos, 1)
    IN  Tensor(BroadcastShape(dp.shape, ep.shape),
            [idx \in Indices(BroadcastShape(dp.shape, ep.shape)) |->
            LET d  == At(dp, idx) - At(ep, idx)
                d2 == FMul(Abs(d), Abs(d))
                x  == FScale(d2, g[2] * g[2], 2 * g[1] * g[1])
            IN  One - ExpNeg(x)])

\* dec_mask.unsqueeze(-1) * enc_mask.unsqueeze(1), cast to the dtype of W
GuideMask(dec_mask, enc_mask) ==
    LET dm == Unsqueeze(dec_mask, 2)
        em == Unsqueeze(enc_mask, 1)
    IN  Tensor(BroadcastShape(dm.shape, em.shape),
            [idx \in Indices(BroadcastShape(dm.shape, em.shape)) |->
            (At(dm, idx) * At(em, idx)) * One])

\* attention_guide without its last step, W *= mask
attention_guide_unmasked(dec_lens, enc_lens, N, T, g) ==
    GuideMatrix(Positions(dec_lens, N), Positions(enc_lens, T), g)

attention_guide(dec_lens, enc_lens, N, T, g) ==
    LET dec_pos  == Positions(dec_lens, N)
        enc_pos  == Positions(enc_lens, T)
        W        == GuideMatrix(dec_pos, enc_pos, g)
        dec_mask == sequence_mask(dec_lens, N)
        enc_mask == sequence_mask(enc_lens, T)
        mask     == GuideMask(dec_mask, enc_mask)
    IN  Multiply(W, mask)

\* paddle.sum(x, [1, 2]) of a tensor of shape (B, N, T): a sequence of B sums
SumFrames(x) ==
    [b \in 1..x.shape[1] |->
        SumOver({idx \in Indices(x.shape) : idx[1] = b - 1}, x.data)]

\* lines 362-363 of guided_attention_loss, W in hand
MeanOverTokens(W, attention_weight, dec_lens, enc_lens) ==
    LET sums == SumFrames(Multiply(W, attention_weight))
    IN  Mean([b \in DOMAIN sums |-> RoundDiv(sums[b], dec_lens[b] * enc_lens[b])])

\* guided_attention_loss with a W that was not masked
guided_attention_loss_unmasked(attention_weight, dec_lens, enc_lens, g) ==
    LET N == attention_weight.shape[2]
        T == attention_weight.shape[3]
    IN  MeanOverTokens(attention_guide_unmasked(dec_lens, enc_lens, N, T, g),
                       attention_weight, dec_lens, enc_lens)

guided_attention_loss(attention_weight, dec_lens, enc_lens, g) ==
    LET N == attention_weight.shape[2]
        T == attention_weight.shape[3]
    IN  MeanOverTokens(attention_guide(dec_lens, enc_lens, N, T, g),
                       attention_weight, dec_lens, enc_lens)

\* batches of two sequences handed to the two functions
SeqBatches == (1..MaxSeq) \X (1..MaxSeq)

\* the values a caller leaves at the padded positions of attention_weight
PadValues == {0, One \div 2, One}

\* attention weights of the given shape holding pad at every padded position
PaddedWeights(shape, dec_lens, enc_lens, pad) ==
    Tensor(shape, [idx \in Indices(shape) |->
        IF idx[2] < dec_lens[idx[1] + 1] /\ idx[3] < enc_lens[idx[1] + 1]
        THEN AttentionWeights(shape).data[idx] ELSE pad])

\* the sizes a caller asks for: the longest sequence of the batch, or one more
Sizes(lens) == {MaxOf(lens), MaxOf(lens) + 1}

GuideCalls ==
    {Pending("attention_guide",
             [dec_lens |-> lens[1], enc_lens |-> lens[2], N |-> sz[1], T |-> sz[2], g |-> g]) :
        lens \in {l \in SeqBatches \X SeqBatches : TRUE},
        sz \in (1..(MaxSeq + 1)) \X (1..(MaxSeq + 1)),
        g \in Sigmas}
    \cup
    {Pending("guided_attention_loss",
             [attention_weight |-> PaddedWeights(<<2, sz[1], sz[2]>>, lens[1], lens[2], sz[3]),
              dec_lens |-> lens[1], enc_lens |-> lens[2], g |-> g]) :
        lens \in {l \in SeqBatches \X SeqBatches : TRUE},
        sz \in (1..(MaxSeq + 1)) \X (1..(MaxSeq + 1)) \X PadValues,
        g \in Sigmas}

\* the calls of GuideCalls whose sizes fit their lengths
FitsLens(c) ==
    IF c.fn = "attention_guide"
    THEN c.args.N \in Sizes(c.args.dec_lens) /\ c.args.T \in Sizes(c.args.enc_lens)
    ELSE /\ c.args.attention_weight.shape[2] \in Sizes(c.args.dec_lens)
         /\ c.args.attention_weight.shape[3] \in Sizes(c.args.enc_lens)

InitAG ==
    /\ self = NoModule
    /\ call \in {c \in GuideCalls : FitsLens(c)}

CallAttentionGuide ==
    /\ IsPending("attention_guide")
    /\ call' = Returns(call, attention_guide(call.args.dec_lens, call.args.enc_lens,
                                             call.args.N, call.args.T, call.args.g))
    /\ UNCHANGED self

CallGuidedAttentionLoss ==
    /\ IsPending("guided_attention_loss")
    /\ call' = Returns(call, guided_attention_loss(call.args.attention_weight,
                                                   call.args.dec_lens, call.args.enc_lens,
                                                   call.args.g))
    /\ UNCHANGED self

NextAG == CallAttentionGuide \/ CallGuidedAttentionLoss

SpecAG == InitAG /\ [][NextAG]_vars

\* C5: attention_guide returns W of shape (B, N, T); W[i, n, t] is
\* 1 - exp(-(n/dec_lens[i] - t/enc_lens[i])^2 / (2 g^2)) where n < dec_lens[i]
\* and t < enc_lens[i], and 0 at every other position.
C5_AttentionGuide ==
    HasReturned("attention_guide") =>
        LET a == call.args
            W == call.ret
        IN  /\ W.shape = <<Len(a.dec_lens), a.N, a.T>>
            /\ \A idx \in Indices(W.shape) :
                   LET i == idx[1] + 1
                   IN  W.data[idx] =
                          IF idx[2] < a.dec_lens[i] /\ idx[3] < a.enc_lens[i]
                          THEN GuidedEntry(idx[2], idx[3], a.enc_lens[i], a.dec_lens[i], a.g)
                          ELSE 0

\* attention_guide has returned a W with padded frames and padded tokens, a
\* non-zero entry within the lengths, and a zero where the unmasked entry is not
C5_Witness ==
    /\ HasReturned("attention_guide")
    /\ call.args.dec_lens = <<2, 1>>
    /\ call.args.enc_lens = <<1, 2>>
    /\ call.args.N = 3
    /\ call.args.T = 3
    /\ call.ret.data[<<0, 1, 0>>] > 0
    /\ call.ret.data[<<0, 1, 2>>] = 0
    /\ attention_guide_unmasked(<<2, 1>>, <<1, 2>>, 3, 3, call.args.g).data[<<0, 1, 2>>] > 0

\* C6: the loss guided_attention_loss returns is the batch mean of
\* sum(W * attention_weight) / (dec_lens[b] * enc_lens[b]) taken over the
\* non-padded positions alone, and it is the same whatever value the padded
\* positions of attention_weight hold.
C6_GuidedAttentionLoss ==
    HasReturned("guided_attention_loss") =>
        LET a  == call.args
            aw == a.attention_weight
            Term == [idx \in NonPadded(aw, a.enc_lens, a.dec_lens) |->
                        LET b == idx[1] + 1
                        IN  FMul(GuidedEntry(idx[2], idx[3], a.enc_lens[b], a.dec_lens[b], a.g),
                                 aw.data[idx])]
            PerSeq == [b \in DOMAIN a.dec_lens |->
                        RoundDiv(SumOver({idx \in DOMAIN Term : idx[1] = b - 1}, Term),
                                 a.dec_lens[b] * a.enc_lens[b])]
        IN  /\ call.ret = RoundDiv(SumSeq(PerSeq), Len(PerSeq))
            /\ \A pad \in PadValues :
                   call.ret = guided_attention_loss(
                                  PaddedWeights(aw.shape, a.dec_lens, a.enc_lens, pad),
                                  a.dec_lens, a.enc_lens, a.g)

\* guided_attention_loss has returned a positive loss for attention weights
\* that are 1 at the padded frames and the padded tokens
C6_Witness ==
    /\ HasReturned("guided_attention_loss")
    /\ call.args.dec_lens = <<2, 1>>
    /\ call.args.enc_lens = <<1, 2>>
    /\ call.args.attention_weight.shape = <<2, 3, 3>>
    /\ call.args.attention_weight.data[<<1, 2, 2>>] = One
    /\ call.args.attention_weight.data[<<0, 1, 1>>] = One
    /\ call.ret > 0

-----------------------------------------------------------------------------
(* Tacotron2Loss *)

\* the quotient a / b of two values (a >= 0, b > 0), correctly rounded: the
\* bits of the fraction rem / b, one at a time
RECURSIVE FracBitsOf(_, _, _)
FracBitsOf(rem, b, bits) ==
    IF bits = 0 THEN (IF 2 * rem >= b THEN 1 ELSE 0)
    ELSE ((2 * rem) \div b) * 2 ^ (bits - 1) + FracBitsOf((2 * rem) % b, b, bits - 1)

FDiv(a, b) == (a \div b) * One + FracBitsOf(a % b, b, FracBits)

\* t + t^3/3 + t^5/5 + ... from the term pow / n on, pow being t^n
RECURSIVE AtanhSeries(_, _, _)
AtanhSeries(pow, t2, n) ==
    LET term == RoundDiv(pow, n)
    IN  IF term = 0 THEN 0
        ELSE term + AtanhSeries(FMul(pow, t2), t2, n + 2)

\* log(1 + u) for 0 <= u <= 1: 2 atanh(u / (2 + u))
Log1p(u) ==
    LET t == FDiv(u, 2 * One + u)
    IN  2 * AtanhSeries(t, FMul(t, t), 1)

\* the elements of a tensor in row-major order
Flatten(x) == [n \in 1..Numel(x.shape) |-> x.data[Unravel(n - 1, x.shape)]]

\* nn.L1Loss(reduction="mean") of two 1-D tensors of the same length
l1_criterion(input, label) ==
    Mean([n \in DOMAIN input |-> Abs(input[n] - label[n])])

\* nn.MSELoss(reduction="mean")
mse_criterion(input, label) ==
    Mean([n \in DOMAIN input |-> FMul(Abs(input[n] - label[n]), Abs(input[n] - label[n]))])

\* one element of binary_cross_entropy_with_logits: with
\* log_weight = (pos_weight - 1) * label + 1,
\* (1 - label) * logit + log_weight * (log(1 + exp(-|logit|)) + max(-logit, 0))
BCEWithLogits(logit, label, pos_weight) ==
    LET log_weight == (pos_weight - 1) * label + 1
        neg        == IF logit < 0 THEN -logit ELSE 0
    IN  (1 - label) * logit + log_weight * (Log1p(ExpNeg(Abs(logit))) + neg)

\* nn.BCEWithLogitsLoss(reduction="mean", pos_weight=pos_weight)
bce_criterion(logit, label, pos_weight) ==
    Mean([n \in DOMAIN logit |-> BCEWithLogits(logit[n], label[n], pos_weight)])

\* Tacotron2Loss.__init__
Tacotron2Loss_init(use_masking, use_weighted_masking, bce_pos_weight) ==
    [cls |-> "Tacotron2Loss", use_masking |-> use_masking,
     use_weighted_masking |-> use_weighted_masking, bce_pos_weight |-> bce_pos_weight]

\* lines 305-309 and 329 of forward: the three losses of the selected elements
Criterions(me, after_outs, before_outs, logits, ys, stop_labels) ==
    [outcome |-> "returned",
     ret |-> <<l1_criterion(after_outs, ys) + l1_criterion(before_outs, ys),
               mse_criterion(after_outs, ys) + mse_criterion(before_outs, ys),
               bce_criterion(logits, stop_labels, me.bce_pos_weight)>>]

\* forward without the masking of lines 292-302
Tacotron2Loss_forward_unmasked(me, a) ==
    Criterions(me, Flatten(a.after_outs), Flatten(a.before_outs), Flatten(a.logits),
               Flatten(a.ys), Flatten(a.stop_labels))

\* Tacotron2Loss.forward on the module me, a the record of its arguments;
\* use_weighted_masking is False, lines 312-327 are not entered
Tacotron2Loss_forward(me, a) ==
    IF me.use_masking
    THEN LET masks  == Unsqueeze(make_non_pad_mask(a.olens), 2)
             masks0 == make_non_pad_mask(a.olens)
         IN  IF \/ ~CanBroadcastTo(masks.shape, a.ys.shape)
                \/ ~CanBroadcastTo(masks.shape, a.after_outs.shape)
                \/ ~CanBroadcastTo(masks.shape, a.before_outs.shape)
                \/ ~CanBroadcastTo(masks0.shape, a.stop_labels.shape)
                \/ ~CanBroadcastTo(masks0.shape, a.logits.shape)
             THEN [outcome |-> "raised", ret |-> None]
             ELSE Criterions(me,
                             masked_select(a.after_outs, masks),
                             masked_select(a.before_outs, masks),
                             masked_select(a.logits, masks0),
                             masked_select(a.ys, masks),
                             masked_select(a.stop_labels, masks0))
    ELSE Criterions(me, Flatten(a.after_outs), Flatten(a.before_outs), Flatten(a.logits),
                    Flatten(a.ys), Flatten(a.stop_labels))

\* the dimension of the output features
Odim == 2

\* the feature patterns a batch is filled with
Seeds == 0..3

\* whether frame idx[2] of sequence idx[1] is padding
IsPadded(idx, olens) == idx[2] >= olens[idx[1] + 1]

\* the arguments of a forward call: a batch of two sequences of the given
\* lengths padded to Lmax frames, every padded frame holding pad (and the stop
\* label 1 unless pad is 0)
TacoBatch(olens, Lmax, seed, pad) ==
    LET Feat(idx, m) == (1 + ((seed + m * idx[1] + 2 * idx[2] + 3 * idx[3]) % 4)) * (One \div 8)
    IN  [after_outs  |-> Tensor(<<2, Lmax, Odim>>, [idx \in Indices(<<2, Lmax, Odim>>) |->
                            IF IsPadded(idx, olens) THEN pad ELSE Feat(idx, 1)]),
         before_outs |-> Tensor(<<2, Lmax, Odim>>, [idx \in Indices(<<2, Lmax, Odim>>) |->
                            IF IsPadded(idx, olens) THEN pad ELSE Feat(idx, 2)]),
         ys          |-> Tensor(<<2, Lmax, Odim>>, [idx \in Indices(<<2, Lmax, Odim>>) |->
                            IF IsPadded(idx, olens) THEN pad
                            ELSE ((seed + idx[1] + idx[2] + idx[3]) % 3) * (One \div 4)]),
         logits      |-> Tensor(<<2, Lmax>>, [idx \in Indices(<<2, Lmax>>) |->
                            IF IsPadded(idx, olens) THEN pad
                            ELSE (((seed + idx[1] + idx[2]) % 3) - 1) * (One \div 2)]),
         stop_labels |-> Tensor(<<2, Lmax>>, [idx \in Indices(<<2, Lmax>>) |->
                            IF IsPadded(idx, olens) THEN (IF pad = 0 THEN 0 ELSE 1)
                            ELSE IF idx[2] = olens[idx[1] + 1] - 1 THEN 1 ELSE 0]),
         olens       |-> olens]

\* the tensor t with pad at every padded frame
PadTensor(t, olens, pad) ==
    Tensor(t.shape,
        [idx \in Indices(t.shape) |->
            IF IsPadded(idx, olens) THEN pad ELSE t.data[idx]])

\* the arguments a with other values at the padded frames of all five tensors
Repad(a, pad) ==
    [a EXCEPT !.after_outs  = PadTensor(@, a.olens, pad),
              !.before_outs = PadTensor(@, a.olens, One - pad),
              !.ys          = PadTensor(@, a.olens, pad \div 2),
              !.logits      = PadTensor(@, a.olens, -pad),
              !.stop_labels = PadTensor(@, a.olens, IF pad = 0 THEN 1 ELSE 0)]

\* the frames a caller pads a batch to: the longest sequence and, where a
\* frame more cannot be broadcast away, one frame more
PaddedTo(olens) ==
    IF MaxOf(olens) = 1 THEN {1} ELSE {MaxOf(olens), MaxOf(olens) + 1}

\* the forward calls made on the module
TacoCalls ==
    {Pending("forward", TacoBatch(c[1], c[2], c[3], c[4])) :
        c \in {x \in SeqBatches \X (1..(MaxSeq + 1)) \X Seeds \X PadValues :
                  x[2] \in PaddedTo(x[1])}}

\* forward reads the module and leaves it as it is: one call on each module
\* stands for every call on it
InitTaco ==
    /\ self \in {Tacotron2Loss_init(use_masking, FALSE, 20) : use_masking \in BOOLEAN}
    /\ call \in TacoCalls

TacoForward ==
    /\ self.cls = "Tacotron2Loss"
    /\ IsPending("forward")
    /\ \E r \in {Tacotron2Loss_forward(self, call.args)} :
           call' = [call EXCEPT !.outcome = r.outcome, !.ret = r.ret]
    /\ UNCHANGED self

NextTaco == TacoForward

SpecTaco == InitTaco /\ [][NextTaco]_vars

\* the mean of the values of the function f over the non-empty set S
MeanOver(S, f) == RoundDiv(SumOver(S, f), Cardinality(S))

-----------------------------------------------------------------------------
(* FeatureMatchLoss *)

\* most discriminators of a call, and most outputs of one discriminator
MaxDiscriminators == 2

MaxOutputs == 2

\* the loop variable j of forward before any inner loop has bound it
Unbound == -1

\* FeatureMatchLoss.__init__
FeatureMatchLoss_init(average_by_layers, average_by_discriminators, include_final_outputs) ==
    [cls |-> "FeatureMatchLoss",
     average_by_layers |-> average_by_layers,
     average_by_discriminators |-> average_by_discriminators,
     include_final_outputs |-> include_final_outputs]

\* feats_[:-1] unless include_final_outputs
WithoutFinal(me, outputs) ==
    IF me.include_final_outputs THEN outputs ELSE SubSeq(outputs, 1, Len(outputs) - 1)

Min(a, b) == IF a < b THEN a ELSE b

\* the inner loop, lines 964-965: the sum of F.l1_loss over the zipped outputs
LayerLosses(feats_hat_, feats_) ==
    SumSeq([k \in 1..Min(Len(feats_hat_), Len(feats_)) |->
                l1_criterion(feats_hat_[k], feats_[k])])

\* the outer loop from its i-th round (1-based) on: feat_match_loss so far,
\* and j as the rounds before left it
RECURSIVE DiscriminatorLoop(_, _, _, _, _, _)
DiscriminatorLoop(me, feats_hat, feats, i, feat_match_loss, j) ==
    IF i > Min(Len(feats_hat), Len(feats))
    THEN [outcome |-> "returned",
          ret |-> IF me.average_by_discriminators
                  THEN RoundDiv(feat_match_loss, i - 1)
                  ELSE feat_match_loss]
    ELSE LET feats_hat_ == WithoutFinal(me, feats_hat[i])
             feats_     == WithoutFinal(me, feats[i])
             layers     == Min(Len(feats_hat_), Len(feats_))
             j_         == IF layers > 0 THEN layers - 1 ELSE j
             loss_      == LayerLosses(feats_hat_, feats_)
         IN  IF me.average_by_layers /\ j_ = Unbound
             THEN [outcome |-> "raised", ret |-> None]
             ELSE DiscriminatorLoop(me, feats_hat, feats, i + 1,
                                    feat_match_loss
                                    + (IF me.average_by_layers
                                       THEN RoundDiv(loss_, j_ + 1) ELSE loss_),
                                    j_)

\* FeatureMatchLoss.forward on the module me
FeatureMatchLoss_forward(me, feats_hat, feats) ==
    DiscriminatorLoop(me, feats_hat, feats, 1, 0, Unbound)

\* one discriminator output: a feature map of two values
Feature(seed, i, k) ==
    <<(1 + ((seed + i + 2 * k) % 4)) * (One \div 8), ((seed + 3 * i + k) % 3) * (One \div 4)>>

\* the outputs of the discriminators: counts[i] outputs of discriminator i
Feats(counts, seed) ==
    [i \in DOMAIN counts |-> [k \in 1..counts[i] |-> Feature(seed, i, k)]]

\* the numbers of outputs of one to MaxDiscriminators discriminators
OutputCounts ==
    UNION {[1..n -> 1..MaxOutputs] : n \in 1..MaxDiscriminators}

InitFM ==
    /\ self \in {FeatureMatchLoss_init(l, d, f) : l \in BOOLEAN, d \in BOOLEAN, f \in BOOLEAN}
    /\ call = [fn |-> "none", args |-> None, outcome |-> "none", ret |-> None]

FeatureMatchForward(feats_hat, feats) ==
    /\ self.cls = "FeatureMatchLoss"
    /\ \E r \in {FeatureMatchLoss_forward(self, feats_hat, feats)} :
           call' = [fn |-> "forward", args |-> [feats_hat |-> feats_hat, feats |-> feats],
                    outcome |-> r.outcome, ret |-> r.ret]
    /\ UNCHANGED self

NextFM ==
    \E counts \in OutputCounts, seed \in Seeds :
        FeatureMatchForward(Feats(counts, seed), Feats(counts, seed + 1))

SpecFM == InitFM /\ [][NextFM]_vars

\* C8 as stated: forward returns a loss value for all non-empty lists of
\* non-empty output lists of matching lengths and every setting of the three
\* flags, a discriminator with its final output alone included.
C8_AsStated ==
    (self.cls = "FeatureMatchLoss" /\ call.fn = "forward") => call.outcome = "returned"

====

